---- MODULE Spec2Model ----
(***************************************************************************)
(* Model of the ingestion core of mri-meta-extract:                        *)
(*   src/mri_meta_extract/files_recording.py  (visit, create_provenance,   *)
(*       create_step, find_type, get_files_hash_from_step, hash_file)      *)
(*   src/mri_meta_extract/nifti_import.py     (nifti2db, save_nifti_meta)  *)
(*                                                                         *)
(* The database is a record of tables; a table is the sequence of its rows *)
(* in insertion order, and a row's id is the position at which it was      *)
(* inserted (an autoincrement primary key).  Python's None is the empty    *)
(* sequence and a present optional value v is <<v>>.                       *)
(*                                                                         *)
(* The module holds one specification per entry point:                     *)
(*   SpecProv   sequential create_provenance calls                         *)
(*   SpecStep   sequential create_step calls (the first statement of visit)*)
(*   SpecNifti  sequential nifti2db calls                                  *)
(*   SpecRace   two callers of the get-or-create operations, interleaved   *)
(*   SpecVisit  sequential visit calls, files being moved in between       *)
(***************************************************************************)
EXTENDS Integers, Sequences, FiniteSets, TLC

VARIABLES
    provenance,      \* table provenance
    provRet,         \* history: natural key -> ids create_provenance returned for it
    provLast,        \* history: the last create_provenance call
    processing_step, \* table processing_step
    clock,           \* datetime.datetime.now()
    stepRet,         \* history: natural key -> ids create_step returned for it
    stepLast,        \* history: the last create_step call
    db,              \* tables scan, session, sequence_type, sequence, repetition, nifti
    conn,            \* nifti_import.conn: "none", "open" or "closed"
    npc,             \* nifti2db: "idle", "walk" or "raised"
    nargs,           \* nifti2db: participant_id and scan_date of the running call
    nfiles,          \* nifti2db: the paths glob.iglob has still to yield
    nlast,           \* history: the last file the running nifti2db call handled
    rpc,             \* concurrent invocations: where each one is
    rfound,          \* concurrent invocations: what the query of each found
    rmiss,           \* history: the get-or-creates of each whose query found nothing
    vdb,             \* tables data_file and repetition, as the DICOM import keeps them
    vconn,           \* visit: db_conn, "none", "open" or "closed"
    vpc,             \* visit: "idle", "walk" or "raised"
    vfiles,          \* visit: the paths glob.iglob has still to yield
    checked,         \* visit: leaf folder -> repetition id
    vrun,            \* visit: arguments, step_id and previous_files_hash of the
                     \* running (or last) call, with the tables as the walk began
    vflags,          \* history: the is_copy flag computed for each file of the walk
    vret,            \* history: what the last visit returned
    vdisk,           \* the file tree as it is now
    vlog,            \* history: the type find_type gave each entry of the walk
                     \* and the importer the entry was handed to
    verr             \* history: the exception that ended the last visit

varsProv == <<provenance, provRet, provLast>>
varsStep == <<processing_step, clock, stepRet, stepLast>>
varsNifti == <<db, conn, npc, nargs, nfiles, nlast>>
varsRace == <<rpc, rfound, rmiss>>
varsVisit == <<vdb, vconn, vpc, vfiles, checked, vrun, vflags, vret, vdisk, vlog, verr>>
vars == <<varsProv, varsStep, varsNifti, varsRace, varsVisit>>

None == <<>>
Some(x) == <<x>>

\* Bounds of the model.
MaxProvenance == 3
MaxClock == 3
MaxFiles == 2
MaxNifti == 4
NumProcs == 2
MaxVisits == 2

\* HASH_BLOCK_SIZE = 65536
HASH_BLOCK_SIZE == 65536

(***************************************************************************)
(* Helpers on tables.                                                      *)
(***************************************************************************)
Rows(table) == {table[i] : i \in 1..Len(table)}

Min(S) == CHOOSE x \in S : \A y \in S : x <= y

\* Query.first() on the result of a query (the matching rows in store
\* order): its first row, or None.
First(result) == IF result = <<>> THEN None ELSE Some(Head(result))

\* filter_by(column=value): SQLAlchemy renders value None as "column IS NULL"
\* and any other value as "column = value".
FilterEqSqlNull(column, value) == value /= None /\ column = value

FilterEq(column, value) ==
    IF value = None THEN column = None ELSE column = value

(***************************************************************************)
(* create_provenance                                                       *)
(***************************************************************************)
ProvFields == {"dataset", "matlab_version", "spm_version", "spm_revision",
               "fn_called", "fn_version", "others"}

\* The argument tuples create_provenance is called with.
ProvArgs ==
    [dataset : {"d1", "d2"},
     matlab_version : {None, Some("9")},
     spm_version : {None},
     spm_revision : {None},
     fn_called : {None, Some("f")},
     fn_version : {None},
     others : {None}]

ProvKey(row) == [f \in ProvFields |-> row[f]]

ProvMatch(row, args) ==
    /\ row.dataset = args.dataset
    /\ FilterEq(row.matlab_version, args.matlab_version)
    /\ FilterEq(row.spm_version, args.spm_version)
    /\ FilterEq(row.spm_revision, args.spm_revision)
    /\ FilterEq(row.fn_called, args.fn_called)
    /\ FilterEq(row.fn_version, args.fn_version)
    /\ FilterEq(row.others, args.others)

QueryProvenance(table, args) ==
    LET Match(row) == ProvMatch(row, args) IN First(SelectSeq(table, Match))

AddProvenance(table, args) ==
    Append(table, [id |-> Len(table) + 1] @@ args)

create_provenance(args) ==
    LET found == QueryProvenance(provenance, args)
        table == IF found = None THEN AddProvenance(provenance, args)
                 ELSE provenance
        row == IF found = None THEN table[Len(table)] ELSE found[1]
    IN /\ Len(table) <= MaxProvenance
       /\ provenance' = table
       /\ provRet' = [provRet EXCEPT ![args] = @ \cup {row.id}]
       /\ provLast' = Some([args |-> args, ret |-> row.id, pre |-> provenance])
       /\ UNCHANGED <<varsStep, varsNifti, varsRace, varsVisit>>

(***************************************************************************)
(* create_step                                                             *)
(***************************************************************************)
\* The (name, provenance_id, previous_step_id) triples create_step is called
\* with; previous_step_id is None for a first processing step.
StepArgs ==
    [name : {"s1", "s2"},
     provenance_id : {1, 2},
     previous_step_id : {None, Some(1), Some(2)}]

StepKey(row) ==
    [name |-> row.name, provenance_id |-> row.provenance_id,
     previous_step_id |-> row.previous_step_id]

StepMatchNoPrevious(row, args) ==
    /\ row.name = args.name
    /\ row.provenance_id = args.provenance_id

StepMatch(row, args) ==
    /\ row.name = args.name
    /\ row.provenance_id = args.provenance_id
    /\ FilterEq(row.previous_step_id, args.previous_step_id)

QueryStep(table, args) ==
    LET Match(row) == StepMatch(row, args) IN First(SelectSeq(table, Match))

AddStepIfAbsent(table, args) ==
    IF \E row \in Rows(table) : StepKey(row) = args THEN table
    ELSE Append(table, [id |-> Len(table) + 1, execution_date |-> None] @@ args)

AddStep(table, args) ==
    Append(table, [id |-> Len(table) + 1, execution_date |-> None] @@ args)

\* step.execution_date = datetime.datetime.now(); commit
StampStep(table, id, now) ==
    [table EXCEPT ![id].execution_date = Some(now)]

\* The table after create_step(args) at time now, and the id it returns.
CreateStep(table, args, now) ==
    LET found == QueryStep(table, args)
        added == IF found = None THEN AddStep(table, args) ELSE table
        id == IF found = None THEN Len(added) ELSE found[1].id
    IN [table |-> StampStep(added, id, now), id |-> id]

create_step(args) ==
    LET now == clock + 1
        res == CreateStep(processing_step, args, now)
    IN /\ clock < MaxClock
       /\ clock' = now
       /\ processing_step' = res.table
       /\ stepRet' = [stepRet EXCEPT ![args] = @ \cup {res.id}]
       /\ stepLast' = Some([args |-> args, ret |-> res.id,
                            pre |-> processing_step])
       /\ UNCHANGED <<varsProv, varsNifti, varsRace, varsVisit>>

(***************************************************************************)
(* Paths and strings.  A string is the sequence of its characters; a path  *)
(* is the sequence of the components that "/" separates, so that an        *)
(* absolute path starts with the empty component.                          *)
(***************************************************************************)
Max(S) == CHOOSE x \in S : \A y \in S : y <= x

Digits == {"0", "1", "2", "3", "4", "5", "6", "7", "8", "9"}

DigitVal(c) ==
    CASE c = "0" -> 0 [] c = "1" -> 1 [] c = "2" -> 2 [] c = "3" -> 3
      [] c = "4" -> 4 [] c = "5" -> 5 [] c = "6" -> 6 [] c = "7" -> 7
      [] c = "8" -> 8 [] c = "9" -> 9

\* The positions at which pat occurs in s.
Occ(s, pat) ==
    {k \in 1..(Len(s) - Len(pat) + 1) : SubSeq(s, k, k + Len(pat) - 1) = pat}

NiiSuffix == <<".", "n", "i", "i">>
PRMarker == <<"P", "R">>
Unknown == <<"u", "n", "k", "n", "o", "w", "n">>

\* Where "[^/]+?\.nii" can match from the start of component c: the
\* occurrences of ".nii" that at least one character precedes.
NiiAt(c) == {k \in Occ(c, NiiSuffix) : k >= 2}

\* re.findall('/([^/]+?)' + n * '/[^/]+?' + '\.nii', path): the group of the
\* leftmost match, or None when nothing matches.  The group starts after a
\* "/", so at component 2 or later; for n > 0 it and the n - 1 components
\* after it are whole non-empty components and ".nii" is found in the n-th
\* component after it; for n = 0 the group is the text before the first
\* ".nii" of its component.  The pattern is not anchored at the end.
FindSegment(path, n) ==
    LET starts == {i \in 2..(Len(path) - n) :
                      /\ \A j \in i..(i + n - 1) : path[j] /= <<>>
                      /\ NiiAt(path[i + n]) /= {}}
        i == Min(starts)
    IN IF starts = {} THEN None
       ELSE IF n = 0 THEN Some(SubSeq(path[i], 1, Min(NiiAt(path[i])) - 1))
       ELSE Some(path[i])

\* int(s) succeeds: an optional sign and at least one digit.
IsInt(s) ==
    LET body == IF s /= <<>> /\ s[1] \in {"+", "-"} THEN Tail(s) ELSE s
    IN body /= <<>> /\ \A k \in 1..Len(body) : body[k] \in Digits

RECURSIVE DecimalValue(_)
DecimalValue(s) ==
    IF s = <<>> THEN 0
    ELSE 10 * DecimalValue(SubSeq(s, 1, Len(s) - 1)) + DigitVal(s[Len(s)])

IntValue(s) ==
    IF s[1] = "-" THEN 0 - DecimalValue(Tail(s))
    ELSE IF s[1] = "+" THEN DecimalValue(Tail(s))
    ELSE DecimalValue(s)

\* re.findall('(.*)PR', filename)[0], "unknown" on IndexError: the text
\* before the last "PR".
PrefixType(filename) ==
    LET o == Occ(filename, PRMarker)
    IN IF o = {} THEN Unknown ELSE SubSeq(filename, 1, Max(o) - 1)

\* re.findall('-\d\d_(.+)', filename)[0], "unknown" on IndexError: the text
\* after the first "-NN_" that at least one character follows.
PostfixType(filename) ==
    LET o == {k \in 1..(Len(filename) - 4) :
                 /\ filename[k] = "-"
                 /\ filename[k + 1] \in Digits
                 /\ filename[k + 2] \in Digits
                 /\ filename[k + 3] = "_"}
    IN IF o = {} THEN Unknown
       ELSE SubSeq(filename, Min(o) + 4, Len(filename))

\* if participant_id and scan_date
Truthy(v) == v /= None /\ v /= Some(<<>>)

(***************************************************************************)
(* save_nifti_meta                                                         *)
(***************************************************************************)
HasNifti(d, file_path) == \E row \in Rows(d.nifti) : row.path = file_path

AddNifti(d, repetition_id, file_path, prefix_type, postfix_type) ==
    [d EXCEPT !.nifti =
        Append(@, [id |-> Len(@) + 1, repetition_id |-> repetition_id,
                   path |-> file_path, result_type |-> prefix_type,
                   output_type |-> postfix_type])]

ResolveChainLastType(d, participant_id, scan_date, session, sequence, repetition) ==
    LET ScanMatch(row) == row.date = scan_date
                          /\ row.participant_id = participant_id
        TypeMatch(row) == row.name = sequence
        scan == First(SelectSeq(d.scan, ScanMatch))
        sequence_type_list == SelectSeq(d.sequence_type, TypeMatch)
        last == Len(sequence_type_list)
    IN IF scan = None \/ last = 0 THEN None
       ELSE LET SessMatch(row) == row.scan_id = scan[1].id
                                   /\ row.value = session
                sess == First(SelectSeq(d.session, SessMatch))
            IN IF sess = None THEN None
               ELSE LET SeqMatch(row) ==
                            /\ row.session_id = sess[1].id
                            /\ row.sequence_type_id
                                  = sequence_type_list[last].id
                        seq == First(SelectSeq(d.sequence, SeqMatch))
                    IN IF seq = None THEN None
                       ELSE LET RepMatch(row) ==
                                    /\ row.sequence_id = seq[1].id
                                    /\ row.value = repetition
                            IN First(SelectSeq(d.repetition, RepMatch))

\* Lines 106-115: "Multiple sequence_type available" is logged when the Scan
\* and the Session were found and the name has more than one row.
WarnsMultiple(d, participant_id, scan_date, session, sequence) ==
    LET ScanMatch(row) == row.date = scan_date
                          /\ row.participant_id = participant_id
        TypeMatch(row) == row.name = sequence
        scan == First(SelectSeq(d.scan, ScanMatch))
        sequence_type_list == SelectSeq(d.sequence_type, TypeMatch)
    IN /\ scan /= None
       /\ Len(sequence_type_list) > 1
       /\ LET SessMatch(row) == row.scan_id = scan[1].id
                                 /\ row.value = session
          IN SelectSeq(d.session, SessMatch) /= <<>>

\* The repetition the chain Scan -> Session -> Sequence -> Repetition
\* resolves to, or None when a link is absent.
ResolveChain(d, participant_id, scan_date, session, sequence, repetition) ==
    LET ScanMatch(row) == row.date = scan_date
                          /\ row.participant_id = participant_id
        TypeMatch(row) == row.name = sequence
        scan == First(SelectSeq(d.scan, ScanMatch))
        sequence_type_list == SelectSeq(d.sequence_type, TypeMatch)
    IN IF scan = None \/ Len(sequence_type_list) = 0 THEN None
       ELSE LET SessMatch(row) == row.scan_id = scan[1].id
                                   /\ row.value = session
                sess == First(SelectSeq(d.session, SessMatch))
            IN IF sess = None THEN None
               ELSE LET SeqMatch(row) ==
                            /\ row.session_id = sess[1].id
                            /\ row.sequence_type_id = sequence_type_list[1].id
                        seq == First(SelectSeq(d.sequence, SeqMatch))
                    IN IF seq = None THEN None
                       ELSE LET RepMatch(row) ==
                                    /\ row.sequence_id = seq[1].id
                                    /\ row.value = repetition
                            IN First(SelectSeq(d.repetition, RepMatch))

\* Lines 101-138, what save_nifti_meta does once the query by path has found
\* nothing: resolve the chain and, if it resolves, add and commit the row.
LinkNiftiUnchecked(d, participant_id, scan_date, session, sequence, repetition, prefix_type, postfix_type, file_path) ==
    LET rep == ResolveChain(d, participant_id, scan_date, session,
                            sequence, repetition)
    IN AddNifti(d, IF rep = None THEN 0 ELSE rep[1].id, file_path,
                prefix_type, postfix_type)

LinkNifti(d, participant_id, scan_date, session, sequence, repetition, prefix_type, postfix_type, file_path) ==
    LET rep == ResolveChain(d, participant_id, scan_date, session,
                            sequence, repetition)
    IN IF rep = None THEN d
       ELSE AddNifti(d, rep[1].id, file_path, prefix_type, postfix_type)

save_nifti_meta_no_path_check(d, participant_id, scan_date, session, sequence, repetition, prefix_type, postfix_type, file_path) ==
    LinkNifti(d, participant_id, scan_date, session, sequence, repetition,
              prefix_type, postfix_type, file_path)

save_nifti_meta_registering(d, participant_id, scan_date, session, sequence, repetition, prefix_type, postfix_type, file_path) ==
    LET ScanMatch(row) == row.date = scan_date
                          /\ row.participant_id = participant_id
        registered ==
            IF SelectSeq(d.scan, ScanMatch) /= <<>> THEN d
            ELSE [d EXCEPT !.scan =
                     Append(@, [id |-> Len(@) + 1, date |-> scan_date,
                                participant_id |-> participant_id])]
    IN IF HasNifti(d, file_path) THEN d
       ELSE LinkNifti(registered, participant_id, scan_date, session,
                      sequence, repetition, prefix_type, postfix_type,
                      file_path)

\* The database after save_nifti_meta.
save_nifti_meta(d, participant_id, scan_date, session, sequence, repetition, prefix_type, postfix_type, file_path) ==
    IF HasNifti(d, file_path) THEN d
    ELSE LinkNifti(d, participant_id, scan_date, session, sequence,
                   repetition, prefix_type, postfix_type, file_path)

(***************************************************************************)
(* nifti2db                                                                *)
(***************************************************************************)
\* The body of the loop for one file: the database after it and how it
\* ended, with the arguments of the save_nifti_meta call if there was one:
\* "saved" (save_nifti_meta was called), "ignored" (participant_id or
\* scan_date missing), "warning" (ValueError caught and logged) or
\* "IndexError" (a findall(...)[0] on an empty list, which nothing catches).
NiftiFile(d, args, file_path) ==
    LET session == FindSegment(file_path, 3)
        sequence == FindSegment(file_path, 2)
        repetition == FindSegment(file_path, 1)
        filename == FindSegment(file_path, 0)
        Ends(outcome) == [db |-> d, outcome |-> outcome, call |-> None]
    IN IF session = None THEN Ends("IndexError")
       ELSE IF ~IsInt(session[1]) THEN Ends("warning")
       ELSE IF sequence = None THEN Ends("IndexError")
       ELSE IF repetition = None THEN Ends("IndexError")
       ELSE IF ~IsInt(repetition[1]) THEN Ends("warning")
       ELSE IF ~(Truthy(args.participant_id) /\ Truthy(args.scan_date))
       THEN Ends("ignored")
       ELSE IF filename = None THEN Ends("IndexError")
       ELSE LET call == [participant_id |-> args.participant_id[1],
                         scan_date |-> args.scan_date[1],
                         session |-> IntValue(session[1]),
                         sequence |-> sequence[1],
                         repetition |-> IntValue(repetition[1]),
                         prefix_type |-> PrefixType(filename[1]),
                         postfix_type |-> PostfixType(filename[1]),
                         file_path |-> file_path]
            IN [db |-> save_nifti_meta(d, call.participant_id,
                            call.scan_date, call.session, call.sequence,
                            call.repetition, call.prefix_type,
                            call.postfix_type, call.file_path),
                outcome |-> "saved",
                call |-> Some(call)]

\* No call of nifti2db is running.
NoNiftiArgs == [participant_id |-> None, scan_date |-> None]

\* One iteration of the loop over glob.iglob(folder + '/**/*.nii').
nifti2db_file ==
    /\ npc = "walk"
    /\ nfiles /= <<>>
    /\ LET res == NiftiFile(db, nargs, Head(nfiles))
       IN /\ Len(res.db.nifti) <= MaxNifti
          /\ db' = res.db
          /\ nlast' = Some([path |-> Head(nfiles), outcome |-> res.outcome,
                            call |-> res.call, pre |-> db, args |-> nargs,
                            multiple |->
                               /\ res.call /= None
                               /\ ~HasNifti(db, Head(nfiles))
                               /\ WarnsMultiple(db, res.call[1].participant_id,
                                     res.call[1].scan_date,
                                     res.call[1].session,
                                     res.call[1].sequence)])
          /\ IF res.outcome = "IndexError"
             THEN npc' = "raised" /\ nfiles' = <<>> /\ nargs' = NoNiftiArgs
             ELSE npc' = "walk" /\ nfiles' = Tail(nfiles) /\ UNCHANGED nargs
    /\ UNCHANGED <<conn, varsProv, varsStep, varsRace, varsVisit>>

\* conn = connection.Connection(db_url), then the loop starts.  A call can
\* follow a call that returned or one that an exception ended.
nifti2db_start(files, args) ==
    /\ npc \in {"idle", "raised"}
    /\ conn' = "open"
    /\ npc' = "walk"
    /\ nargs' = args
    /\ nfiles' = files
    /\ nlast' = None
    /\ UNCHANGED <<db, varsProv, varsStep, varsRace, varsVisit>>

\* The loop is over: conn.close().
nifti2db_finish ==
    /\ npc = "walk"
    /\ nfiles = <<>>
    /\ conn' = "closed"
    /\ npc' = "idle"
    /\ nargs' = NoNiftiArgs
    /\ nlast' = None
    /\ UNCHANGED <<db, nfiles, varsProv, varsStep, varsRace, varsVisit>>

(***************************************************************************)
(* The folders and databases the import is run on.                         *)
(***************************************************************************)
ParticipantP1 == <<"P", "1">>
DateD1 == <<"D", "1">>

NiftiArgs ==
    [participant_id : {None, Some(ParticipantP1)},
     scan_date : {None, Some(DateD1)}]

FilePlain == <<"b", ".", "n", "i", "i">>
FileTyped == <<"a", "P", "R", "-", "0", "1", "_", "t", ".", "n", "i", "i">>
DirNii == <<"w", ".", "n", "i", "i", ".", "d">>

\* /d/3/S/2/aPR-01_t.nii and /d/3/S/2/b.nii follow the convention;
\* /d/4/S/2/b.nii names a session the database may not hold; /d/x/S/2/b.nii
\* and /d/3/S/y/b.nii have a session or a repetition that is no integer;
\* /d/b.nii has too few components; /d/3/S/2/w.nii.d/x/S/2/b.nii and
\* /d/4/S/2/w.nii.d/3/S/2/aPR-01_t.nii lie under a directory whose name holds
\* ".nii".
\* The file system lists them in this order.
GlobOrder ==
    <<<<<<>>, <<"d">>, <<"3">>, <<"S">>, <<"2">>, FileTyped>>,
      <<<<>>, <<"d">>, <<"3">>, <<"S">>, <<"2">>, DirNii, <<"x">>, <<"S">>,
        <<"2">>, FilePlain>>,
      <<<<>>, <<"d">>, <<"3">>, <<"S">>, <<"y">>, FilePlain>>,
      <<<<>>, <<"d">>, FilePlain>>,
      <<<<>>, <<"d">>, <<"x">>, <<"S">>, <<"2">>, FilePlain>>,
      <<<<>>, <<"d">>, <<"4">>, <<"S">>, <<"2">>, DirNii, <<"3">>, <<"S">>,
        <<"2">>, FileTyped>>,
      <<<<>>, <<"d">>, <<"4">>, <<"S">>, <<"2">>, FilePlain>>,
      <<<<>>, <<"d">>, <<"3">>, <<"S">>, <<"2">>, FilePlain>>>>

NiftiPaths == {GlobOrder[i] : i \in 1..Len(GlobOrder)}

\* What glob.iglob can yield for a folder: up to n of the paths, in the
\* order of the file system.
Listings(order, n) ==
    LET Nth(I, k) == CHOOSE i \in I : Cardinality({j \in I : j < i}) = k - 1
    IN {[k \in 1..Cardinality(I) |-> order[Nth(I, k)]] :
           I \in {J \in SUBSET (1..Len(order)) : Cardinality(J) <= n}}

\* The registered chain Scan(P1, D1) -> Session 3 -> Sequence of type "S" ->
\* Repetition 2, cut after its first `depth` links; the SequenceType row is
\* there or not, and a Sequence needs it.
ChainDb(depth, typed) ==
    [participant |-> IF depth >= 1 THEN <<[id |-> ParticipantP1]>> ELSE <<>>,
     scan |-> IF depth >= 1
              THEN <<[id |-> 1, date |-> DateD1,
                      participant_id |-> ParticipantP1]>>
              ELSE <<>>,
     session |-> IF depth >= 2
                 THEN <<[id |-> 1, scan_id |-> 1, value |-> 3]>> ELSE <<>>,
     sequence_type |-> IF typed THEN <<[id |-> 1, name |-> <<"S">>]>>
                       ELSE <<>>,
     sequence |-> IF depth >= 3
                  THEN <<[id |-> 1, session_id |-> 1,
                          sequence_type_id |-> 1]>>
                  ELSE <<>>,
     repetition |-> IF depth >= 4
                    THEN <<[id |-> 1, sequence_id |-> 1, value |-> 2]>>
                    ELSE <<>>,
     nifti |-> <<>>]

\* The chain, cut after `depth` links, with two SequenceType rows named
\* "S"; the Sequence, if there, is of the first or of the second.
TwoTypes(depth, first) ==
    [ChainDb(depth, TRUE) EXCEPT
        !.sequence_type = <<[id |-> 1, name |-> <<"S">>],
                            [id |-> 2, name |-> <<"S">>]>>,
        !.sequence = IF depth >= 3
                     THEN <<[id |-> 1, session_id |-> 1,
                             sequence_type_id |-> IF first THEN 1 ELSE 2]>>
                     ELSE <<>>]

\* The whole chain, with two Session rows of value 3 under the Scan.
TwoSessions ==
    [ChainDb(4, TRUE) EXCEPT
        !.session = <<[id |-> 1, scan_id |-> 1, value |-> 3],
                      [id |-> 2, scan_id |-> 1, value |-> 3]>>]

ChainDbs ==
    {ChainDb(depth, typed) : depth \in 0..2, typed \in BOOLEAN}
    \cup {ChainDb(depth, TRUE) : depth \in 3..4}
    \cup {TwoTypes(1, TRUE), TwoTypes(4, TRUE), TwoTypes(4, FALSE)}
    \cup {TwoSessions}

(***************************************************************************)
(* The file tree visit walks.  A file is what the collaborators see of it: *)
(* the description magic.from_file gives ("directory" where it raises      *)
(* IsADirectoryError), whether nibabel.load accepts it, its bytes, and the *)
(* metadata its DICOM headers carry; `reads` tells whether open() and      *)
(* read() succeed on it.                                                   *)
(***************************************************************************)
Directory ==
    [magic |-> "directory", loads |-> FALSE, content |-> <<>>, meta |-> None,
     reads |-> FALSE]

DicomOnDisk(content, meta) ==
    [magic |-> "DICOM medical imaging data", loads |-> FALSE,
     content |-> content, meta |-> Some(meta), reads |-> TRUE]

DataOnDisk(content, loads) ==
    [magic |-> "data", loads |-> loads, content |-> content, meta |-> None,
     reads |-> TRUE]

TextOnDisk(content) ==
    [magic |-> "ASCII text", loads |-> FALSE, content |-> content,
     meta |-> None, reads |-> TRUE]

\* A file magic describes but whose bytes cannot be read.
Unreadable(file) == [file EXCEPT !.reads = FALSE]

VDir(folder) == <<<<"d">>, <<folder>>>>
VPath(folder, name) == <<<<"d">>, <<folder>>, <<name>>>>

\* The tree under d, in the order glob.iglob yields it.  d/1 holds two DICOM
\* files of one acquisition; d/2 holds a copy of d/1/a and a file of another
\* acquisition; d/4 holds a file of one acquisition and, in d/4/5, a file of
\* another and a file that cannot be read; d/3 holds a text file, a "data" file nibabel rejects and a NIFTI
\* file with the bytes of d/1/b.
Disk ==
    <<[path |-> VDir("0"), file |-> Directory],
      [path |-> VPath("0", "z"), file |-> DicomOnDisk(<<1>>, "m1")],
      [path |-> VDir("1"), file |-> Directory],
      [path |-> VPath("1", "a"), file |-> DicomOnDisk(<<1>>, "m1")],
      [path |-> VPath("1", "b"), file |-> DicomOnDisk(<<2>>, "m1")],
      [path |-> VDir("2"), file |-> Directory],
      [path |-> VPath("2", "c"), file |-> DicomOnDisk(<<1>>, "m1")],
      [path |-> VPath("2", "e"), file |-> DicomOnDisk(<<1, 2>>, "m2")],
      [path |-> VDir("3"), file |-> Directory],
      [path |-> VPath("3", "t"), file |-> TextOnDisk(<<1>>)],
      [path |-> VPath("3", "u"), file |-> DataOnDisk(<<1>>, FALSE)],
      [path |-> VPath("3", "n"), file |-> DataOnDisk(<<2>>, TRUE)],
      [path |-> VDir("4"), file |-> Directory],
      [path |-> VPath("4", "g"), file |-> DicomOnDisk(<<2, 1>>, "m2")],
      [path |-> VDir("4") \o <<<<"5">>>>, file |-> Directory],
      [path |-> VPath("4", "5") \o <<<<"k">>>>,
       file |-> DicomOnDisk(<<2, 2>>, "m1")],
      [path |-> VPath("4", "5") \o <<<<"x">>>>,
       file |-> Unreadable(DicomOnDisk(<<3>>, "m1"))]>>

\* The file at a path, or None when there is none.
DiskFile(disk, path) ==
    LET At(entry) == entry.path = path
        hits == SelectSeq(disk, At)
    IN IF hits = <<>> THEN None ELSE Some(hits[1].file)

\* glob.iglob(os.path.join(folder, "**/*"), recursive=True): everything
\* below folder, directories included.
Glob(disk, folder) ==
    LET Below(entry) == /\ Len(entry.path) > Len(folder)
                        /\ SubSeq(entry.path, 1, Len(folder)) = folder
        hits == SelectSeq(disk, Below)
    IN [i \in 1..Len(hits) |-> hits[i].path]

(***************************************************************************)
(* find_type, hash_file, get_files_hash_from_step                          *)
(***************************************************************************)
find_type_unparsed(file) ==
    IF file.magic = "directory" THEN None
    ELSE IF file.magic = "DICOM medical imaging data" THEN Some("DICOM")
    ELSE IF file.magic = "data" THEN Some("NIFTI")
    ELSE Some("other")

\* None is the function's return value for a directory.
find_type(file) ==
    IF file.magic = "directory" THEN None
    ELSE IF file.magic = "DICOM medical imaging data" THEN Some("DICOM")
    ELSE IF file.magic = "data" /\ file.loads THEN Some("NIFTI")
    ELSE Some("other")

\* The blocks f.read(HASH_BLOCK_SIZE) returns until it returns b''.
RECURSIVE ReadBlocks(_, _)
ReadBlocks(content, size) ==
    IF content = <<>> THEN <<>>
    ELSE LET n == IF Len(content) < size THEN Len(content) ELSE size
         IN <<SubSeq(content, 1, n)>>
            \o ReadBlocks(SubSeq(content, n + 1, Len(content)), size)

\* hashlib.sha1 fed the blocks one by one; the digest stands for the bytes
\* fed (no two byte strings of the model collide).
RECURSIVE Sha1(_)
Sha1(blocks) ==
    IF blocks = <<>> THEN [sha1 |-> <<>>]
    ELSE [sha1 |-> Sha1(SubSeq(blocks, 1, Len(blocks) - 1)).sha1
                   \o blocks[Len(blocks)]]

\* The digest of the file, or None when open() or read() raises.
hash_file(disk, filename) ==
    LET file == DiskFile(disk, filename)
    IN IF file = None \/ ~file[1].reads THEN None
       ELSE Some(Sha1(ReadBlocks(file[1].content, HASH_BLOCK_SIZE)))

OfAnyStep(row, step_id) == TRUE

\* DataFile rows selected by filter_by(processing_step_id=step_id).
OfStep(row, step_id) == FilterEq(row.processing_step_id, step_id)

get_files_hash_skipping_missing(d, disk, step_id) ==
    LET Match(row) == OfStep(row, step_id) /\ hash_file(disk, row.path) /= None
        files == SelectSeq(d.data_file, Match)
    IN Some([i \in 1..Len(files) |-> hash_file(disk, files[i].path)[1]])

\* The list of digests, or None when a hash_file raises.
get_files_hash_from_step(d, disk, step_id) ==
    LET Match(row) == OfStep(row, step_id)
        files == SelectSeq(d.data_file, Match)
    IN IF \E i \in 1..Len(files) : hash_file(disk, files[i].path) = None
       THEN None
       ELSE Some([i \in 1..Len(files) |-> hash_file(disk, files[i].path)[1]])

(***************************************************************************)
(* dicom_import.dicom2db and dicom_import.extract_dicom                    *)
(***************************************************************************)
\* The record of the file is created once per path.
extract_dicom(d, file_path, file_type, is_copy, repetition_id, step_id) ==
    IF \E row \in Rows(d.data_file) : row.path = file_path THEN d
    ELSE [d EXCEPT !.data_file =
             Append(@, [id |-> Len(@) + 1, path |-> file_path,
                        type |-> file_type, is_copy |-> is_copy,
                        repetition_id |-> repetition_id,
                        processing_step_id |-> Some(step_id)])]

\* The headers are parsed, the grouping entity they name is found or
\* created, and the file is recorded under it.
dicom2db(d, file, file_path, file_type, is_copy, step_id) ==
    LET Match(row) == row.meta = file.meta[1]
        found == First(SelectSeq(d.repetition, Match))
        grouped == IF found /= None THEN d
                   ELSE [d EXCEPT !.repetition =
                            Append(@, [id |-> Len(@) + 1,
                                       meta |-> file.meta[1]])]
        repetition_id == IF found /= None THEN found[1].id
                         ELSE Len(grouped.repetition)
    IN [vdb |-> extract_dicom(grouped, file_path, file_type, is_copy,
                              repetition_id, step_id),
        repetition_id |-> repetition_id]

(***************************************************************************)
(* visit                                                                   *)
(***************************************************************************)
\* os.path.split(file_path)[0]
LeafFolderTop(file_path) == SubSeq(file_path, 1, 1)

LeafFolder(file_path) == SubSeq(file_path, 1, Len(file_path) - 1)

\* hash_file(file_path) in previous_files_hash
InList(h, list) == \E i \in 1..Len(list) : list[i] = h

\* The body of the loop for one file.  st holds the tables, the dict
\* `checked`, the flags computed so far, the log of what each entry was
\* taken for and handed to, and how the walk stands: "ok", "IOError"
\* (hash_file raised) or "TypeError" (nifti_import.nifti2db takes 3 or 4
\* positional arguments and is called with 6).
VisitFile(st, file_path, boost, step_id, previous_files_hash, disk) ==
    LET file == DiskFile(disk, file_path)[1]
        file_type == find_type(file)
        h == hash_file(disk, file_path)
        is_copy == InList(h[1], previous_files_hash)
        Logged(via, repetition_id) ==
            [st EXCEPT !.log = Append(@, [path |-> file_path,
                                          type |-> file_type, via |-> via,
                                          repetition_id |-> repetition_id])]
        Flagged(via, repetition_id) ==
            [Logged(via, repetition_id) EXCEPT
                !.flags = @ \cup {[path |-> file_path, is_copy |-> is_copy]}]
        leaf_folder == LeafFolder(file_path)
    IN IF file_type = Some("DICOM")
       THEN IF h = None
            THEN [Logged("none", None) EXCEPT !.outcome = "IOError"]
            ELSE IF leaf_folder \notin DOMAIN st.checked \/ ~boost
            THEN LET ret == dicom2db(st.vdb, file, file_path, "DICOM",
                                     is_copy, step_id)
                 IN [Flagged("dicom2db", Some(ret.repetition_id)) EXCEPT
                        !.vdb = ret.vdb,
                        !.checked = (leaf_folder :> ret.repetition_id) @@ @]
            ELSE [Flagged("extract_dicom", Some(st.checked[leaf_folder]))
                     EXCEPT
                     !.vdb = extract_dicom(st.vdb, file_path, "DICOM",
                                is_copy, st.checked[leaf_folder], step_id)]
       ELSE IF file_type = Some("NIFTI")
       THEN IF h = None
            THEN [Logged("none", None) EXCEPT !.outcome = "IOError"]
            ELSE [Flagged("nifti2db", None) EXCEPT !.outcome = "TypeError"]
       ELSE Logged("none", None)

\* The loop from st over the files still to come.
RECURSIVE WalkFrom(_, _, _, _, _, _)
WalkFrom(st, files, boost, step_id, previous_files_hash, disk) ==
    IF files = <<>> \/ st.outcome /= "ok" THEN st
    ELSE WalkFrom(VisitFile(st, Head(files), boost, step_id,
                            previous_files_hash, disk),
                  Tail(files), boost, step_id, previous_files_hash, disk)

PropagateCaught(outcome) == "walk"

\* Nothing in visit catches an exception: one raised in the loop body ends
\* the loop and the call.
Propagate(outcome) == IF outcome = "ok" THEN "walk" ELSE "raised"

KeptChecked == checked

\* Line 51: checked = dict(), a local of the call.
NewChecked == <<>>

\* Lines 43-51: connect, create_step, get_files_hash_from_step, checked = {}.
visit_start(args) ==
    /\ vpc \in {"idle", "raised"}
    /\ clock < MaxVisits
    /\ LET res == CreateStep(processing_step, args.step, clock + 1)
           hashes == get_files_hash_from_step(vdb, vdisk,
                                              args.step.previous_step_id)
           files == IF hashes = None THEN <<>> ELSE Glob(vdisk, args.folder)
       IN /\ clock' = clock + 1
          /\ processing_step' = res.table
          /\ vconn' = "open"
          /\ vpc' = IF hashes = None THEN "raised" ELSE "walk"
          /\ verr' = IF hashes = None
                     THEN Some([kind |-> "IOError", file |-> None])
                     ELSE None
          /\ vfiles' = files
          /\ vrun' = Some([args |-> args, step_id |-> res.id,
                           previous_files_hash |->
                               IF hashes = None THEN <<>> ELSE hashes[1],
                           start |-> vdb, files |-> files, disk |-> vdisk])
    /\ checked' = NewChecked
    /\ vflags' = {}
    /\ vlog' = <<>>
    /\ vret' = None
    /\ UNCHANGED <<vdb, vdisk, stepRet, stepLast, varsProv, varsNifti,
                   varsRace>>

\* Lines 52-65: one iteration of the loop over glob.iglob.
visit_file ==
    /\ vpc = "walk"
    /\ vfiles /= <<>>
    /\ LET st == VisitFile([vdb |-> vdb, checked |-> checked,
                            flags |-> vflags, log |-> vlog,
                            outcome |-> "ok"],
                           Head(vfiles), vrun[1].args.boost, vrun[1].step_id,
                           vrun[1].previous_files_hash, vdisk)
       IN /\ vdb' = st.vdb
          /\ checked' = st.checked
          /\ vflags' = st.flags
          /\ vlog' = st.log
          /\ vpc' = Propagate(st.outcome)
          /\ vfiles' = IF vpc' = "walk" THEN Tail(vfiles) ELSE <<>>
          /\ verr' = IF st.outcome = "ok" THEN verr
                     ELSE Some([kind |-> st.outcome,
                                file |-> Some(Head(vfiles))])
    /\ UNCHANGED <<vconn, vrun, vret, vdisk, varsProv, varsStep, varsNifti,
                   varsRace>>

\* Lines 67-70: db_conn.close(); return step_id.
visit_finish ==
    /\ vpc = "walk"
    /\ vfiles = <<>>
    /\ vconn' = "closed"
    /\ vpc' = "idle"
    /\ vret' = Some(vrun[1].step_id)
    /\ UNCHANGED <<vdb, vfiles, checked, vrun, vflags, vdisk, vlog, verr,
                   varsProv, varsStep, varsNifti, varsRace>>

\* The file someone moves away between two visits.
Movable == VPath("1", "b")

\* Between two calls of visit a file recorded earlier is moved or deleted.
move_file ==
    /\ vpc /= "walk"
    /\ DiskFile(vdisk, Movable) /= None
    /\ LET Stays(entry) == entry.path /= Movable
       IN vdisk' = SelectSeq(vdisk, Stays)
    /\ UNCHANGED <<vdb, vconn, vpc, vfiles, checked, vrun, vflags, vret,
                   vlog, verr, varsProv, varsStep, varsNifti, varsRace>>

\* What visit is called with: a first step, or a step that follows step 1;
\* one of the folders of the tree; boost on or off.
VisitArgs ==
    [step : {[name |-> "s1", provenance_id |-> 1, previous_step_id |-> None],
             [name |-> "s2", provenance_id |-> 1,
              previous_step_id |-> Some(1)]},
     folder : {<<<<"d">>>>, VDir("1"), VDir("2"), VDir("3"), VDir("4")},
     boost : BOOLEAN]

NoDataFiles == [data_file |-> <<>>, repetition |-> <<>>]

\* d/0/z was recorded by an importer that set no processing step.
OrphanDataFile ==
    [data_file |-> <<[id |-> 1, path |-> VPath("0", "z"), type |-> "DICOM",
                      is_copy |-> FALSE, repetition_id |-> 1,
                      processing_step_id |-> None]>>,
     repetition |-> <<[id |-> 1, meta |-> "m1"]>>]

(***************************************************************************)
(* Concurrent invocations against one database.  Each get-or-create is a   *)
(* query and, later, an insert and commit under `if not found`; nothing    *)
(* locks the table in between and no table has a uniqueness constraint, so *)
(* the steps of different invocations interleave.  Every invocation runs   *)
(* create_provenance, create_step and save_nifti_meta in turn, all with    *)
(* the same natural keys.                                                  *)
(***************************************************************************)
Procs == 1..NumProcs

RaceProvArgs ==
    [dataset |-> "d1", matlab_version |-> None, spm_version |-> None,
     spm_revision |-> None, fn_called |-> None, fn_version |-> None,
     others |-> None]

RaceStepArgs ==
    [name |-> "s1", provenance_id |-> 1, previous_step_id |-> None]

RaceNiftiPath == <<<<>>, <<"d">>, <<"3">>, <<"S">>, <<"2">>, FileTyped>>

\* create_provenance, lines 90-93
race_provenance_query(p) ==
    /\ rpc[p] = "provenance_query"
    /\ rfound' = [rfound EXCEPT ![p] =
                     QueryProvenance(provenance, RaceProvArgs) /= None]
    /\ rpc' = [rpc EXCEPT ![p] = "provenance_write"]
    /\ UNCHANGED <<rmiss, varsProv, varsStep, varsNifti, varsVisit>>

\* create_provenance, lines 95-101
race_provenance_write(p) ==
    /\ rpc[p] = "provenance_write"
    /\ provenance' = IF rfound[p] THEN provenance
                     ELSE AddProvenance(provenance, RaceProvArgs)
    /\ rmiss' = [rmiss EXCEPT ![p] =
                    IF rfound[p] THEN @ ELSE @ \cup {"provenance"}]
    /\ rpc' = [rpc EXCEPT ![p] = "step_query"]
    /\ rfound' = [rfound EXCEPT ![p] = FALSE]
    /\ UNCHANGED <<provRet, provLast, varsStep, varsNifti, varsVisit>>

\* create_step, lines 124-126
race_step_query(p) ==
    /\ rpc[p] = "step_query"
    /\ rfound' = [rfound EXCEPT ![p] =
                     QueryStep(processing_step, RaceStepArgs) /= None]
    /\ rpc' = [rpc EXCEPT ![p] = "step_write"]
    /\ UNCHANGED <<rmiss, varsProv, varsStep, varsNifti, varsVisit>>

\* create_step, lines 128-136: the row this invocation stamps is the one it
\* found, or the one it adds.
race_step_write(p) ==
    /\ rpc[p] = "step_write"
    /\ clock < MaxClock
    /\ clock' = clock + 1
    /\ LET added == IF rfound[p] THEN processing_step
                    ELSE AddStep(processing_step, RaceStepArgs)
           id == IF rfound[p] THEN QueryStep(processing_step, RaceStepArgs)[1].id
                 ELSE Len(added)
       IN processing_step' = StampStep(added, id, clock')
    /\ rmiss' = [rmiss EXCEPT ![p] =
                    IF rfound[p] THEN @ ELSE @ \cup {"processing_step"}]
    /\ rpc' = [rpc EXCEPT ![p] = "nifti_query"]
    /\ rfound' = [rfound EXCEPT ![p] = FALSE]
    /\ UNCHANGED <<stepRet, stepLast, varsProv, varsNifti, varsVisit>>

\* save_nifti_meta, line 99
race_nifti_query(p) ==
    /\ rpc[p] = "nifti_query"
    /\ rfound' = [rfound EXCEPT ![p] = HasNifti(db, RaceNiftiPath)]
    /\ rpc' = [rpc EXCEPT ![p] = "nifti_write"]
    /\ UNCHANGED <<rmiss, varsProv, varsStep, varsNifti, varsVisit>>

\* save_nifti_meta, lines 101-138
race_nifti_write(p) ==
    /\ rpc[p] = "nifti_write"
    /\ db' = IF rfound[p] THEN db
             ELSE LinkNifti(db, ParticipantP1, DateD1, 3, <<"S">>, 2,
                            PrefixType(FindSegment(RaceNiftiPath, 0)[1]),
                            PostfixType(FindSegment(RaceNiftiPath, 0)[1]),
                            RaceNiftiPath)
    /\ rmiss' = [rmiss EXCEPT ![p] = IF rfound[p] THEN @ ELSE @ \cup {"nifti"}]
    /\ rpc' = [rpc EXCEPT ![p] = "done"]
    /\ rfound' = [rfound EXCEPT ![p] = FALSE]
    /\ UNCHANGED <<conn, npc, nargs, nfiles, nlast, varsProv, varsStep, varsVisit>>

(***************************************************************************)
(* Specifications                                                          *)
(***************************************************************************)
InitProv ==
    /\ provenance = <<>>
    /\ provRet = [a \in ProvArgs |-> {}]
    /\ provLast = None

InitStep ==
    /\ processing_step = <<>>
    /\ clock = 0
    /\ stepRet = [a \in StepArgs |-> {}]
    /\ stepLast = None

\* No nifti2db call has run.
InitNoNifti ==
    /\ conn = "none"
    /\ npc = "idle"
    /\ nargs = NoNiftiArgs
    /\ nfiles = <<>>
    /\ nlast = None

InitNifti ==
    /\ db \in ChainDbs
    /\ InitNoNifti

\* No concurrent invocation runs.
InitNoRace ==
    /\ rpc = [p \in Procs |-> "done"]
    /\ rfound = [p \in Procs |-> FALSE]
    /\ rmiss = [p \in Procs |-> {}]

\* No visit has run.
InitNoVisit ==
    /\ vconn = "none"
    /\ vpc = "idle"
    /\ vfiles = <<>>
    /\ checked = <<>>
    /\ vrun = None
    /\ vflags = {}
    /\ vret = None
    /\ vdisk = Disk
    /\ vlog = <<>>
    /\ verr = None

Init ==
    /\ InitProv /\ InitStep /\ InitNifti /\ InitNoRace /\ InitNoVisit
    /\ vdb = NoDataFiles

InitVisit ==
    /\ InitProv /\ InitStep /\ InitNoNifti /\ InitNoRace /\ InitNoVisit
    /\ db = ChainDb(0, FALSE)
    /\ vdb \in {NoDataFiles, OrphanDataFile}

\* NumProcs invocations start against a database that holds some or all of
\* the chain.
InitRace ==
    /\ InitProv /\ InitStep /\ InitNifti /\ InitNoVisit
    /\ vdb = NoDataFiles
    /\ rpc = [p \in Procs |-> "provenance_query"]
    /\ rfound = [p \in Procs |-> FALSE]
    /\ rmiss = [p \in Procs |-> {}]

NextProv == \E args \in ProvArgs : create_provenance(args)

SpecProv == Init /\ [][NextProv]_vars

NextStep == \E args \in StepArgs : create_step(args)

SpecStep == Init /\ [][NextStep]_vars

NextNifti ==
    \/ \E files \in Listings(GlobOrder, MaxFiles), args \in NiftiArgs :
          nifti2db_start(files, args)
    \/ nifti2db_file
    \/ nifti2db_finish

SpecNifti == Init /\ [][NextNifti]_vars

NextRace ==
    \E p \in Procs :
        \/ race_provenance_query(p)
        \/ race_provenance_write(p)
        \/ race_step_query(p)
        \/ race_step_write(p)
        \/ race_nifti_query(p)
        \/ race_nifti_write(p)

SpecRace == InitRace /\ [][NextRace]_vars

NextVisit ==
    \/ \E args \in VisitArgs : visit_start(args)
    \/ visit_file
    \/ visit_finish
    \/ move_file

SpecVisit == InitVisit /\ [][NextVisit]_vars

(***************************************************************************)
(* Claims                                                                  *)
(***************************************************************************)
StepRowsOf(args) ==
    {i \in 1..Len(processing_step) : StepKey(processing_step[i]) = args}

\* C1: sequential create_step calls (the first statement of visit, which
\* returns the id unchanged) with one (step_name, provenance_id,
\* previous_step_id) triple, previous_step_id = None included, leave exactly
\* one ProcessingStep row with that triple; every call returns that row's id;
\* a call that finds the row changes nothing but its execution timestamp,
\* which every call sets to the current time.
C1_StepReusedAndStamped ==
    /\ \A a \in StepArgs :
          stepRet[a] /= {} => /\ Cardinality(StepRowsOf(a)) = 1
                              /\ stepRet[a] = StepRowsOf(a)
    /\ stepLast /= None =>
          LET l == stepLast[1]
              existed == \E row \in Rows(l.pre) : StepKey(row) = l.args
          IN /\ processing_step[l.ret].execution_date = Some(clock)
             /\ StepKey(processing_step[l.ret]) = l.args
             /\ existed =>
                   processing_step =
                       [l.pre EXCEPT ![l.ret].execution_date = Some(clock)]
             /\ ~existed =>
                   /\ Len(processing_step) = Len(l.pre) + 1
                   /\ SubSeq(processing_step, 1, Len(l.pre)) = l.pre

\* C1 witness: a second call with a triple whose previous_step_id is None
\* returned the existing row and refreshed its timestamp.
C1_Witness ==
    /\ stepLast /= None
    /\ stepLast[1].args.previous_step_id = None
    /\ \E row \in Rows(stepLast[1].pre) :
          /\ StepKey(row) = stepLast[1].args
          /\ row.id = stepLast[1].ret
          /\ row.execution_date /= Some(clock)
    /\ Len(processing_step) >= 2

ProvRowsOf(args) ==
    {i \in 1..Len(provenance) : ProvKey(provenance[i]) = args}

\* C3: after sequential create_provenance calls there is exactly one
\* Provenance row per field tuple ever passed (none for a tuple never
\* passed), two calls return the same id iff their tuples are equal (None
\* fields included), and a call with a recorded tuple inserts nothing.
C3_ProvenanceNaturalKey ==
    /\ \A a \in ProvArgs :
          Cardinality(ProvRowsOf(a)) = IF provRet[a] /= {} THEN 1 ELSE 0
    /\ \A a, b \in ProvArgs : \A i \in provRet[a], j \in provRet[b] :
          (i = j) <=> (a = b)
    /\ provLast /= None =>
          LET l == provLast[1]
          IN /\ ProvKey(provenance[l.ret]) = l.args
             /\ (\E row \in Rows(l.pre) : ProvKey(row) = l.args)
                   => provenance = l.pre

\* C3 witness: a call repeated a recorded tuple that has None fields, was
\* given the id of the recorded row and inserted nothing.
C3_Witness ==
    /\ provLast /= None
    /\ provLast[1].args.matlab_version = None
    /\ provLast[1].pre = provenance
    /\ provLast[1].ret = 2
    /\ Len(provenance) = 3

\* C2: after any sequence of single-writer nifti2db runs the Nifti table
\* holds at most one row per file path, and handling a file whose path has
\* a row already leaves the database as it was.
C2_OneNiftiRowPerPath ==
    /\ \A i, j \in 1..Len(db.nifti) :
          db.nifti[i].path = db.nifti[j].path => i = j
    /\ nlast /= None /\ HasNifti(nlast[1].pre, nlast[1].path) =>
          db = nlast[1].pre

\* C2 witness: a later run met a file (one that save_nifti_meta was called
\* for) whose path an earlier run had recorded, and added nothing.
C2_Witness ==
    /\ nlast /= None
    /\ nlast[1].outcome = "saved"
    /\ HasNifti(nlast[1].pre, nlast[1].path)
    /\ Len(db.nifti) = 2

\* Some chain Scan(participant, date) -> Session(scan, value) ->
\* Sequence(session, SequenceType named `sequence`) -> Repetition(sequence,
\* value) exists in d.
ChainExists(d, c) ==
    \E sc \in Rows(d.scan), se \in Rows(d.session),
       st \in Rows(d.sequence_type), sq \in Rows(d.sequence),
       rp \in Rows(d.repetition) :
        /\ sc.participant_id = c.participant_id /\ sc.date = c.scan_date
        /\ se.scan_id = sc.id /\ se.value = c.session
        /\ st.name = c.sequence
        /\ sq.session_id = se.id /\ sq.sequence_type_id = st.id
        /\ rp.sequence_id = sq.id /\ rp.value = c.repetition

\* C5: when save_nifti_meta is called and a link of the chain is absent, no
\* Nifti row is written, no table changes, nothing is raised and the loop of
\* nifti2db goes on.
C5_ChainMissSkips ==
    nlast /= None /\ nlast[1].call /= None
        /\ ~ChainExists(nlast[1].pre, nlast[1].call[1]) =>
            /\ db = nlast[1].pre
            /\ nlast[1].outcome = "saved"
            /\ npc /= "raised"

\* C5 witness: the Scan and the Session were found, a later link was not,
\* nothing was written and another file is still to come.
C5_Witness ==
    /\ nlast /= None /\ nlast[1].call /= None
    /\ ~ChainExists(nlast[1].pre, nlast[1].call[1])
    /\ nlast[1].pre.session /= <<>>
    /\ nlast[1].call[1].session = 3
    /\ db.nifti = <<>>
    /\ npc = "walk" /\ nfiles /= <<>>

\* C6 (as claimed): a file whose path a segment pattern does not match is
\* logged as a warning and skipped, and the walk goes on.
C6_NoMatchIsWarned ==
    nlast /= None /\ (\E n \in 0..3 : FindSegment(nlast[1].path, n) = None) =>
        /\ nlast[1].outcome = "warning"
        /\ npc /= "raised"

\* C7 (as claimed): a file whose 4th-from-last or 2nd-from-last path
\* component is no integer is skipped with a warning, writes no record and
\* does not stop the walk.
C7_NonIntegerIsWarned ==
    nlast /= None /\ Len(nlast[1].path) >= 5
        /\ (\/ ~IsInt(nlast[1].path[Len(nlast[1].path) - 3])
            \/ ~IsInt(nlast[1].path[Len(nlast[1].path) - 1])) =>
            /\ nlast[1].outcome = "warning"
            /\ db = nlast[1].pre
            /\ npc /= "raised"

Missed(kind) == {p \in Procs : kind \in rmiss[p]}

\* C8: the get-or-creates are a bare query followed by an insert: every
\* invocation whose query found nothing inserts a row of its own, whatever
\* the others have inserted since, so two invocations with one natural key
\* that both query before either inserts leave two rows with that key.
C8_CheckThenInsertRaces ==
    /\ Cardinality(ProvRowsOf(RaceProvArgs)) = Cardinality(Missed("provenance"))
    /\ Cardinality(StepRowsOf(RaceStepArgs)) =
          Cardinality(Missed("processing_step"))
    /\ ResolveChain(db, ParticipantP1, DateD1, 3, <<"S">>, 2) /= None =>
          Cardinality({i \in 1..Len(db.nifti) :
                          db.nifti[i].path = RaceNiftiPath})
              = Cardinality(Missed("nifti"))

\* C8 witness: two invocations have run to the end and each table holds two
\* rows with the same natural key.
C8_Witness ==
    /\ \A p \in Procs : rpc[p] = "done"
    /\ Cardinality(ProvRowsOf(RaceProvArgs)) >= 2
    /\ Cardinality(StepRowsOf(RaceStepArgs)) >= 2
    /\ Cardinality({i \in 1..Len(db.nifti) :
                       db.nifti[i].path = RaceNiftiPath}) >= 2

(***************************************************************************)
(* Copy detection in visit                                                 *)
(***************************************************************************)
\* The bytes of the file at a path.
ContentOf(path) == DiskFile(Disk, path)[1].content

\* The files recorded under step p when the walk of the last visit started.
RecordedUnder(p) ==
    {row \in Rows(vrun[1].start.data_file) : row.processing_step_id = p}

\* C9: during a visit with a previous step p, a recognized file is flagged
\* is_copy exactly when a file recorded under p when the walk started has
\* the same bytes; files recorded during the walk change nothing.
C9_CopyIffSameContentAtStart ==
    (vrun /= None /\ vrun[1].args.step.previous_step_id /= None)
    => \A f \in vflags :
          f.is_copy <=>
             \E row \in RecordedUnder(vrun[1].args.step.previous_step_id) :
                ContentOf(row.path) = ContentOf(f.path)

\* A visit whose previous step recorded files flags one file as a copy and
\* another as new, and a file with the bytes of one recorded during the
\* walk is not flagged.
C9_Witness ==
    /\ vrun /= None
    /\ vrun[1].args.step.previous_step_id /= None
    /\ \E f, g \in vflags : f.is_copy /\ ~g.is_copy
    /\ \E f \in vflags :
          /\ ~f.is_copy
          /\ \E row \in Rows(vdb.data_file) :
                /\ row.path /= f.path
                /\ row.processing_step_id = Some(vrun[1].step_id)
                /\ ContentOf(row.path) = ContentOf(f.path)

\* C10: a visit called without previous_step_id gets an empty collection
\* from get_files_hash_from_step and flags no file as is_copy, whatever
\* file records exist.
C10_NoPreviousStepNoCopy ==
    (vrun /= None /\ vrun[1].args.step.previous_step_id = None)
    => /\ vrun[1].previous_files_hash = <<>>
       /\ \A f \in vflags : ~f.is_copy

(***************************************************************************)
(* boost                                                                   *)
(***************************************************************************)
\* The DICOM records of the tables and the repetition each is linked to.
DicomLinks(d) ==
    {<<row.path, row.repetition_id>> :
        row \in {r \in Rows(d.data_file) : r.type = "DICOM"}}

\* The last visit run again from the tables it started from, with boost
\* the other way round.
OtherBoostRun ==
    WalkFrom([vdb |-> vrun[1].start, checked |-> <<>>, flags |-> {},
              log |-> <<>>, outcome |-> "ok"],
             vrun[1].files, ~vrun[1].args.boost, vrun[1].step_id,
             vrun[1].previous_files_hash, vrun[1].disk)

\* The last visit has ended: it returned or it raised.
VisitEnded == vrun /= None /\ vpc /= "walk"

\* C4 as stated: with boost and without it, a visit of the same folder from
\* the same tables ends with the same DICOM records linked to the same
\* repetitions.
C4_BoostChangesNothing ==
    VisitEnded => DicomLinks(vdb) = DicomLinks(OtherBoostRun.vdb)

\* The DICOM files of every leaf folder of the list carry the same
\* metadata.
UniformLeafFolders(files) ==
    \A i, j \in 1..Len(files) :
       LET f == DiskFile(Disk, files[i])[1]
           g == DiskFile(Disk, files[j])[1]
       IN (/\ find_type(f) = Some("DICOM")
           /\ find_type(g) = Some("DICOM")
           /\ SubSeq(files[i], 1, Len(files[i]) - 1)
                 = SubSeq(files[j], 1, Len(files[j]) - 1))
          => f.meta = g.meta

\* C4, amended: the two runs end alike provided the DICOM files of each
\* leaf folder visited carry the same metadata.
C4_BoostChangesNothingInUniformFolders ==
    (VisitEnded /\ UniformLeafFolders(vrun[1].files))
    => DicomLinks(vdb) = DicomLinks(OtherBoostRun.vdb)

\* A boosted visit of uniform leaf folders returned after it recorded two
\* files of one leaf folder, the second through the memoised id.
C4_Witness ==
    /\ vpc = "idle"
    /\ vret /= None
    /\ vrun[1].args.boost
    /\ UniformLeafFolders(vrun[1].files)
    /\ \E r1, r2 \in Rows(vdb.data_file) \ Rows(vrun[1].start.data_file) :
          /\ r1.path /= r2.path
          /\ LeafFolder(r1.path) = LeafFolder(r2.path)
          /\ LeafFolder(r1.path) \in DOMAIN checked
          /\ r1.repetition_id = checked[LeafFolder(r1.path)]
          /\ r2.repetition_id = checked[LeafFolder(r1.path)]

(***************************************************************************)
(* Failures during visit                                                   *)
(***************************************************************************)
\* The position in the list of the walk of the file the last visit failed
\* on.
FailedAt ==
    CHOOSE k \in 1..Len(vrun[1].files) : vrun[1].files[k] = verr[1].file[1]

\* hash_file raised on a file of the walk.
HashFailedInWalk ==
    verr /= None /\ verr[1].kind = "IOError" /\ verr[1].file /= None

\* C11: when hash_file fails on the k-th file of the walk, the visit is
\* over: nothing after the k-th file is classified or imported, no step id
\* is returned, and the step row and the records of the files before the
\* k-th stay in storage.
C11_IOErrorEndsVisit ==
    HashFailedInWalk =>
       LET files == vrun[1].files
           before == {files[i] : i \in 1..(FailedAt - 1)}
           paths(d) == {row.path : row \in Rows(d.data_file)}
       IN /\ vret = None
          /\ [i \in 1..Len(vlog) |-> vlog[i].path] = SubSeq(files, 1, FailedAt)
          /\ \E row \in Rows(processing_step) : row.id = vrun[1].step_id
          /\ Rows(vrun[1].start.data_file) \subseteq Rows(vdb.data_file)
          /\ paths(vdb) \subseteq paths(vrun[1].start) \cup before
          /\ \A f \in before :
                DiskFile(Disk, f)[1].magic = "DICOM medical imaging data"
                => f \in paths(vdb)

\* A visit failed on its third file or later, after it had recorded files.
C11_Witness ==
    /\ HashFailedInWalk
    /\ vpc = "raised"
    /\ FailedAt >= 3
    /\ Rows(vdb.data_file) \ Rows(vrun[1].start.data_file) /= {}

C13_ConnectionClosedWhenOver ==
    /\ npc /= "walk" => conn /= "open"
    /\ vpc /= "walk" => vconn /= "open"

(***************************************************************************)
(* Linking a NIFTI file                                                    *)
(***************************************************************************)
\* The last four components of the path of the last file, read by the
\* convention s/q/r/name.nii.
LastByConvention ==
    LET path == nlast[1].path
        n == Len(path)
    IN [participant_id |-> nlast[1].args.participant_id[1],
        scan_date |-> nlast[1].args.scan_date[1],
        session |-> IntValue(path[n - 3]),
        sequence |-> path[n - 2],
        repetition |-> IntValue(path[n - 1]),
        stem |-> SubSeq(path[n], 1, Len(path[n]) - Len(NiiSuffix))]

\* The last file follows the convention, with integers for s and r, both
\* arguments were supplied, its path was not recorded and its chain exists.
ConventionalAndRegistered ==
    /\ nlast /= None
    /\ Len(nlast[1].path) >= 5
    /\ IsInt(nlast[1].path[Len(nlast[1].path) - 3])
    /\ IsInt(nlast[1].path[Len(nlast[1].path) - 1])
    /\ Truthy(nlast[1].args.participant_id)
    /\ Truthy(nlast[1].args.scan_date)
    /\ ~HasNifti(nlast[1].pre, nlast[1].path)
    /\ ChainExists(nlast[1].pre, LastByConvention)

\* C14 (as claimed): for such a file nifti2db creates exactly one Nifti
\* row, with the Repetition of the chain, the path, the text before "PR" as
\* result_type and the text after "-NN_" as output_type.
C14_ConventionalFileLinked ==
    ConventionalAndRegistered =>
       /\ Len(db.nifti) = Len(nlast[1].pre.nifti) + 1
       /\ SubSeq(db.nifti, 1, Len(nlast[1].pre.nifti)) = nlast[1].pre.nifti
       /\ LET row == db.nifti[Len(db.nifti)]
              c == LastByConvention
          IN /\ row.path = nlast[1].path
             /\ row.result_type = PrefixType(c.stem)
             /\ row.output_type = PostfixType(c.stem)
             /\ \E rp \in Rows(db.repetition) :
                   /\ rp.id = row.repetition_id
                   /\ rp.value = c.repetition

\* The rows of SequenceType with the name the last call was given.
TypesNamed ==
    LET Named(row) == row.name = nlast[1].call[1].sequence
    IN SelectSeq(nlast[1].pre.sequence_type, Named)

\* save_nifti_meta was called for a path not yet recorded, with a sequence
\* name that more than one SequenceType row has.
SeveralTypesNamed ==
    /\ nlast /= None
    /\ nlast[1].call /= None
    /\ ~HasNifti(nlast[1].pre, nlast[1].path)
    /\ Len(TypesNamed) > 1

\* The chain of the last call exists through the first SequenceType row
\* with the name.
ChainThroughFirstType ==
    ChainExists([nlast[1].pre EXCEPT !.sequence_type = <<TypesNamed[1]>>],
                nlast[1].call[1])

\* The Scan and the Session of the last call exist.
ScanAndSessionExist ==
    \E sc \in Rows(nlast[1].pre.scan), se \in Rows(nlast[1].pre.session) :
        /\ sc.participant_id = nlast[1].call[1].participant_id
        /\ sc.date = nlast[1].call[1].scan_date
        /\ se.scan_id = sc.id
        /\ se.value = nlast[1].call[1].session

\* C15 as stated: with several SequenceType rows of the name,
\* save_nifti_meta does not fail, logs a warning, and links the file exactly
\* when the chain resolves through the first of them.
C15_SeveralTypesWarnAndFirstUsed ==
    SeveralTypesNamed =>
       /\ npc /= "raised"
       /\ nlast[1].multiple
       /\ db /= nlast[1].pre <=> ChainThroughFirstType

\* C15, amended: the file is linked exactly when the chain resolves through
\* the first row, and the warning is logged exactly when the Scan and the
\* Session were found.
C15_FirstTypeUsedAndWarnedAfterSession ==
    SeveralTypesNamed =>
       /\ npc /= "raised"
       /\ nlast[1].multiple <=> ScanAndSessionExist
       /\ db /= nlast[1].pre <=> ChainThroughFirstType

\* With two rows of the name and the Sequence under the second only, the
\* warning was logged and the file was not linked.
C15_Witness ==
    /\ SeveralTypesNamed
    /\ nlast[1].multiple
    /\ ChainExists(nlast[1].pre, nlast[1].call[1])
    /\ ~ChainThroughFirstType
    /\ db = nlast[1].pre

\* The rows each step of the chain of the last call matches.
ChainMatches ==
    LET d == nlast[1].pre
        c == nlast[1].call[1]
        scans == {sc \in Rows(d.scan) :
                     sc.participant_id = c.participant_id
                     /\ sc.date = c.scan_date}
        sessions == {se \in Rows(d.session) :
                        se.value = c.session
                        /\ \E sc \in scans : se.scan_id = sc.id}
        types == {st \in Rows(d.sequence_type) : st.name = c.sequence}
        sequences == {sq \in Rows(d.sequence) :
                         /\ \E se \in sessions : sq.session_id = se.id
                         /\ \E st \in types : sq.sequence_type_id = st.id}
        repetitions == {rp \in Rows(d.repetition) :
                           rp.value = c.repetition
                           /\ \E sq \in sequences : rp.sequence_id = sq.id}
    IN [scan |-> scans, session |-> sessions, sequence |-> sequences,
        repetition |-> repetitions]

\* C16 (as claimed): a Nifti row is written only if the Scan, Session,
\* Sequence and Repetition steps each match exactly one row.
C16_AmbiguousStepSkips ==
    (nlast /= None /\ nlast[1].call /= None /\ db /= nlast[1].pre)
    => /\ Cardinality(ChainMatches.scan) = 1
       /\ Cardinality(ChainMatches.session) = 1
       /\ Cardinality(ChainMatches.sequence) = 1
       /\ Cardinality(ChainMatches.repetition) = 1

(***************************************************************************)
(* The memo of visit                                                       *)
(***************************************************************************)
\* The entries of the log before the i-th that are imported DICOM files of
\* the leaf folder of the i-th.
EarlierOfFolder(i) ==
    {j \in 1..(i - 1) :
        /\ vlog[j].via \in {"dicom2db", "extract_dicom"}
        /\ SubSeq(vlog[j].path, 1, Len(vlog[j].path) - 1)
              = SubSeq(vlog[i].path, 1, Len(vlog[i].path) - 1)}

\* C17: the memo starts empty in every invocation.  With boost the first
\* DICOM file of a leaf folder goes through dicom2db and every later one
\* through extract_dicom with the repetition id dicom2db returned for the
\* first; without boost every DICOM file goes through dicom2db.
C17_MemoPerInvocation ==
    vrun /= None =>
       /\ \A leaf \in DOMAIN checked :
             \E i \in 1..Len(vlog) :
                /\ vlog[i].via = "dicom2db"
                /\ SubSeq(vlog[i].path, 1, Len(vlog[i].path) - 1) = leaf
       /\ \A i \in 1..Len(vlog) :
             vlog[i].via \in {"dicom2db", "extract_dicom"} =>
                IF ~vrun[1].args.boost \/ EarlierOfFolder(i) = {}
                THEN vlog[i].via = "dicom2db"
                ELSE /\ vlog[i].via = "extract_dicom"
                     /\ vlog[i].repetition_id
                           = vlog[Min(EarlierOfFolder(i))].repetition_id

\* In a second invocation with boost, over a folder an earlier invocation
\* visited, the first file went through dicom2db and the second through
\* extract_dicom.
C17_Witness ==
    /\ clock = 2
    /\ vrun /= None
    /\ vrun[1].args.boost
    /\ vrun[1].start.data_file /= <<>>
    /\ \E i \in 1..Len(vlog) :
          /\ vlog[i].via = "extract_dicom"
          /\ EarlierOfFolder(i) /= {}
          /\ \E row \in Rows(vrun[1].start.data_file) :
                row.path = vlog[i].path

(***************************************************************************)
(* Lineage                                                                 *)
(***************************************************************************)
\* Following previous_step_id from the step `from`, `to` is met within n
\* links.
RECURSIVE ReachesPrevious(_, _, _)
ReachesPrevious(from, to, n) ==
    /\ n > 0
    /\ \E row \in Rows(processing_step) :
          /\ row.id = from
          /\ row.previous_step_id /= None
          /\ \/ row.previous_step_id[1] = to
             \/ ReachesPrevious(row.previous_step_id[1], to, n - 1)

\* C18 (as claimed): no step is its own predecessor, directly or through a
\* chain of previous_step_id links.
C18_LineageAcyclic ==
    \A row \in Rows(processing_step) :
       ~ReachesPrevious(row.id, row.id, Len(processing_step))

(***************************************************************************)
(* What the NIFTI import writes                                            *)
(***************************************************************************)
\* C19: no step of nifti2db changes the Participant, Scan, Session,
\* SequenceType, Sequence or Repetition table; a step leaves the Nifti
\* table as it is or appends one row to it.
C19_ImportOnlyAddsNifti ==
    [][/\ db'.participant = db.participant
       /\ db'.scan = db.scan
       /\ db'.session = db.session
       /\ db'.sequence_type = db.sequence_type
       /\ db'.sequence = db.sequence
       /\ db'.repetition = db.repetition
       /\ \/ db'.nifti = db.nifti
          \/ /\ Len(db'.nifti) = Len(db.nifti) + 1
             /\ SubSeq(db'.nifti, 1, Len(db.nifti)) = db.nifti]_vars

\* A Nifti row had been added and a later file was skipped for want of its
\* Session.
C19_Witness ==
    /\ nlast /= None
    /\ nlast[1].call /= None
    /\ Len(db.nifti) = 1
    /\ db = nlast[1].pre
    /\ nlast[1].call[1].session = 4
    /\ ~HasNifti(db, nlast[1].path)

(***************************************************************************)
(* A file of the previous step that is gone                                *)
(***************************************************************************)
\* When the last visit began, a file recorded under its previous step was
\* no longer on disk.
PreviousFileGone ==
    /\ vrun /= None
    /\ \E row \in Rows(vrun[1].start.data_file) :
          /\ row.processing_step_id = vrun[1].args.step.previous_step_id
          /\ DiskFile(vrun[1].disk, row.path) = None

\* The last visit failed before its walk.
FailedBeforeWalk == verr /= None /\ verr[1].file = None

\* C20: a file of the previous step that is gone ends visit with the read
\* failure after the step row is created or re-stamped and before any
\* entry of the folder is classified or imported.
C20_GoneFileStopsBeforeWalk ==
    /\ PreviousFileGone => FailedBeforeWalk
    /\ FailedBeforeWalk =>
          /\ vpc = "raised"
          /\ vret = None
          /\ vlog = <<>>
          /\ vflags = {}
          /\ vdb = vrun[1].start
          /\ \E row \in Rows(processing_step) :
                /\ row.id = vrun[1].step_id
                /\ StepKey(row) = StepKey(vrun[1].args.step)
                /\ row.execution_date = Some(clock)

\* d/1/b was recorded under step 1 and then moved; the next visit, with
\* previous step 1, stamped its step row and failed.
C20_Witness ==
    /\ PreviousFileGone
    /\ FailedBeforeWalk
    /\ clock = 2
    /\ vdb.data_file /= <<>>
    /\ \E row \in Rows(processing_step) :
          row.id = vrun[1].step_id /\ row.execution_date = Some(2)

====
